---- MODULE Spec2Model ----
(***************************************************************************)
(* A model of sv::devices::HardwareDevice (src/devices/hardwaredevice.cpp): *)
(* the constructor's channel classification, and the open / close /         *)
(* acquisition-thread lifecycle, with the caller thread and the acquisition *)
(* thread interleaved statement by statement.                               *)
(***************************************************************************)
EXTENDS Integers, Sequences, FiniteSets, TLC

(***************************************************************************)
(* Bounds of the model.                                                     *)
(***************************************************************************)
\* Longest channel list a modelled driver handle reports.
MaxChannels == 2
\* Number of open() calls the caller makes in one behaviour.
MaxOpens == 2
\* Number of data packets the driver delivers in one acquisition run.
MaxPackets == 1

\* Longest channel list of a driver handle of the constructor's own
\* specification.
MaxCtorChannels == 2

\* Longest list of devices the Device Manager knows.
MaxKnownDevices == 2

\* Most entries of a metadata packet.
MaxMetaEntries == 2

(***************************************************************************)
(* The driver handle (sigrok::HardwareDevice) handed to the constructor.    *)
(***************************************************************************)
ConfigKeys == {"POWER_SUPPLY", "ELECTRONIC_LOAD", "MULTIMETER", "DEMO_DEV"}

\* The channels a driver may report, in the order the driver lists them.
\* A channel is identified by id (the shared_ptr), and has an internal name
\* (a sequence of characters) and a type.
ChannelPool ==
    << [id |-> 1, name |-> <<"V", "1">>, type |-> "ANALOG"],
       [id |-> 2, name |-> <<"I", "1">>, type |-> "ANALOG"],
       [id |-> 3, name |-> <<"P", "1">>, type |-> "ANALOG"],
       [id |-> 4, name |-> <<"D", "0">>, type |-> "LOGIC"] >>

\* Channel lists: the first n channels of the pool, in either direction.
Reverse(s) == [i \in 1..Len(s) |-> s[Len(s) + 1 - i]]

PoolPrefix(n) == SubSeq(ChannelPool, 1, n)

PoolSuffix(n) == SubSeq(Reverse(ChannelPool), 1, n)

ChannelLists ==
    {PoolPrefix(n) : n \in 0..MaxChannels} \cup {PoolSuffix(n) : n \in 0..MaxChannels}

\* Channel groups of a channel list: none, or one group "1" of all channels.
GroupLists(chs) ==
    { <<>>, << [name |-> "1", channels |-> [i \in 1..Len(chs) |-> chs[i].id]] >> }

\* The key sets the modelled drivers report: no type key, one type key, or
\* the two keys of a device that is both a power supply and a load.
KeySets ==
    {ks \in SUBSET ConfigKeys : Cardinality(ks) <= 1}
        \cup { {"POWER_SUPPLY", "ELECTRONIC_LOAD"} }

SrDevices ==
    UNION { { [keys |-> ks, channels |-> chs, groups |-> gs] :
                ks \in KeySets, gs \in GroupLists(chs) } : chs \in ChannelLists }

(***************************************************************************)
(* HardwareDevice::HardwareDevice                                           *)
(***************************************************************************)
\* QString::startsWith for a one-character prefix.
startsWith(name, c) == Len(name) > 0 /\ name[1] = c

\* assert("Unknown device"): assert aborts when its argument converts to
\* false; a string literal is a non-null pointer and converts to true.
AssertArgument == TRUE

\* A variant of DeviceOptions that pins the quantity of a multimeter's
\* signals and not that of an electronic load's.
DeviceOptions_SwappedFixed(sr_keys) ==
    IF "POWER_SUPPLY" \in sr_keys
      THEN [type |-> "POWER_SUPPLY", common |-> FALSE, fixed_mq |-> TRUE, aborted |-> FALSE]
    ELSE IF "ELECTRONIC_LOAD" \in sr_keys
      THEN [type |-> "ELECTRONIC_LOAD", common |-> TRUE, fixed_mq |-> FALSE, aborted |-> FALSE]
    ELSE IF "MULTIMETER" \in sr_keys
      THEN [type |-> "MULTIMETER", common |-> FALSE, fixed_mq |-> TRUE, aborted |-> FALSE]
    ELSE IF "DEMO_DEV" \in sr_keys
      THEN [type |-> "DEMO_DEV", common |-> FALSE, fixed_mq |-> FALSE, aborted |-> FALSE]
    ELSE [type |-> "UNKNOWN", common |-> FALSE, fixed_mq |-> FALSE, aborted |-> FALSE]

\* Device type, common time base and fixed_mq of a key set (lines 76-105).
\* common is TRUE when the constructor calls init_time_data() for the
\* common time base; aborted is TRUE when the assert stops construction.
DeviceOptions(sr_keys) ==
    IF "POWER_SUPPLY" \in sr_keys
      THEN [type |-> "POWER_SUPPLY", common |-> FALSE, fixed_mq |-> TRUE, aborted |-> FALSE]
    ELSE IF "ELECTRONIC_LOAD" \in sr_keys
      THEN [type |-> "ELECTRONIC_LOAD", common |-> TRUE, fixed_mq |-> TRUE, aborted |-> FALSE]
    ELSE IF "MULTIMETER" \in sr_keys
      THEN [type |-> "MULTIMETER", common |-> FALSE, fixed_mq |-> FALSE, aborted |-> FALSE]
    ELSE IF "DEMO_DEV" \in sr_keys
      THEN [type |-> "DEMO_DEV", common |-> FALSE, fixed_mq |-> FALSE, aborted |-> FALSE]
    ELSE [type |-> "UNKNOWN", common |-> FALSE, fixed_mq |-> FALSE,
          aborted |-> ~AssertArgument]

\* A variant of SignalData that does not know the prefix "A".
SignalData_NoPrefixA(name, fixed_mq) ==
    IF startsWith(name, "V")
      THEN [fixed_quantity |-> fixed_mq, quantity |-> "VOLTAGE", unit |-> "VOLT"]
    ELSE IF startsWith(name, "I")
      THEN [fixed_quantity |-> fixed_mq, quantity |-> "CURRENT", unit |-> "AMPERE"]
    ELSE IF startsWith(name, "F")
      THEN [fixed_quantity |-> fixed_mq, quantity |-> "FREQUENCY", unit |-> "HERTZ"]
    ELSE IF name = <<"P", "1">>
      THEN [fixed_quantity |-> fixed_mq, quantity |-> "NONE", unit |-> "NONE"]
    ELSE [fixed_quantity |-> FALSE, quantity |-> "NONE", unit |-> "NONE"]

\* Quantity and unit of the value buffer of a signal, by its internal name
\* (lines 355-380). "NONE" is a quantity or unit that was never set.
SignalData(name, fixed_mq) ==
    IF startsWith(name, "V")
      THEN [fixed_quantity |-> fixed_mq, quantity |-> "VOLTAGE", unit |-> "VOLT"]
    ELSE IF startsWith(name, "I")
      THEN [fixed_quantity |-> fixed_mq, quantity |-> "CURRENT", unit |-> "AMPERE"]
    ELSE IF startsWith(name, "F")
      THEN [fixed_quantity |-> fixed_mq, quantity |-> "FREQUENCY", unit |-> "HERTZ"]
    ELSE IF name = <<"P", "1">>
      THEN [fixed_quantity |-> fixed_mq, quantity |-> "NONE", unit |-> "NONE"]
    ELSE IF startsWith(name, "A")
      THEN [fixed_quantity |-> fixed_mq, quantity |-> "VOLTAGE", unit |-> "VOLT"]
    ELSE [fixed_quantity |-> FALSE, quantity |-> "NONE", unit |-> "NONE"]

\* A variant of SignalTimeData that never attaches the common time buffer.
SignalTimeData_AlwaysFresh(d) == d.n_time_data + 1

\* The time buffer init_signal attaches (lines 349-353): the common one when
\* there is one, a fresh one from init_time_data() otherwise. Time buffers
\* are numbered in the order init_time_data() creates them; d.n_time_data is
\* the number created so far and d.common_time_data the common one (0: null).
SignalTimeData(d) ==
    IF d.common_time_data # 0 THEN d.common_time_data ELSE d.n_time_data + 1

\* std::map::insert: an existing key keeps its value.
MapInsert(m, k, v) ==
    IF k \in DOMAIN m THEN m ELSE [x \in DOMAIN m \cup {k} |-> IF x = k THEN v ELSE m[x]]

\* init_signal (lines 327-412) on the device under construction d. A signal
\* is identified by its index in all_signals_; 0 is the null pointer.
init_signal(d, sr_channel, fixed_mq) ==
    IF sr_channel.type # "ANALOG" THEN d
    ELSE
      LET name == sr_channel.name
          td == SignalTimeData(d)
          signal == [internal_name |-> name,
                     sr_channel |-> sr_channel.id,
                     fixed_mq |-> fixed_mq,
                     time_data |-> td,
                     data |-> SignalData(name, fixed_mq)]
          idx == Len(d.all_signals_) + 1
      IN [d EXCEPT
            !.n_time_data = IF td > d.n_time_data THEN td ELSE d.n_time_data,
            !.all_signals_ = Append(d.all_signals_, signal),
            !.signal_name_map_ = MapInsert(d.signal_name_map_, name, idx),
            !.sr_channel_signal_map_ =
                MapInsert(d.sr_channel_signal_map_, sr_channel.id, idx),
            !.voltage_signal_ =
                IF startsWith(name, "V") /\ d.voltage_signal_ = 0 THEN idx ELSE @,
            !.current_signal_ =
                IF ~(startsWith(name, "V") /\ d.voltage_signal_ = 0)
                   /\ startsWith(name, "I") /\ d.current_signal_ = 0 THEN idx ELSE @,
            !.measurement_signal_ =
                IF ~(startsWith(name, "V") /\ d.voltage_signal_ = 0)
                   /\ ~(startsWith(name, "I") /\ d.current_signal_ = 0)
                   /\ name \in {<<"P", "1">>, <<"A", "1">>}
                   /\ d.measurement_signal_ = 0 THEN idx ELSE @]

\* The loop over sr_device_->channels() (lines 108-112).
RECURSIVE InitSignals(_, _, _)
InitSignals(d, sr_channels, fixed_mq) ==
    IF sr_channels = <<>> THEN d
    ELSE InitSignals(init_signal(d, Head(sr_channels), fixed_mq),
                     Tail(sr_channels), fixed_mq)

\* A variant of CgSignals that keeps a null signal for a channel that has
\* none.
RECURSIVE CgSignals_KeepsNull(_, _)
CgSignals_KeepsNull(d, cg_channels) ==
    IF cg_channels = <<>> THEN <<>>
    ELSE (IF Head(cg_channels) \in DOMAIN d.sr_channel_signal_map_
            THEN <<d.sr_channel_signal_map_[Head(cg_channels)]>> ELSE <<0>>)
         \o CgSignals_KeepsNull(d, Tail(cg_channels))

\* The signals of one channel group (lines 125-129).
RECURSIVE CgSignals(_, _)
CgSignals(d, cg_channels) ==
    IF cg_channels = <<>> THEN <<>>
    ELSE (IF Head(cg_channels) \in DOMAIN d.sr_channel_signal_map_
            THEN <<d.sr_channel_signal_map_[Head(cg_channels)]>> ELSE <<>>)
         \o CgSignals(d, Tail(cg_channels))

\* A variant of InitConfigurables that makes no Configurable for a channel
\* group none of whose channels has a signal.
RECURSIVE InitConfigurables_SkipsEmptyGroups(_, _)
InitConfigurables_SkipsEmptyGroups(d, sr_channel_groups) ==
    IF sr_channel_groups = <<>> THEN d
    ELSE LET sr_cg == Head(sr_channel_groups)
         IN InitConfigurables_SkipsEmptyGroups(
              IF CgSignals(d, sr_cg.channels) = <<>> THEN d
              ELSE [d EXCEPT
                      !.configurables_ = Append(@, [of |-> "group", name |-> sr_cg.name]),
                      !.channel_group_name_signals_map_ =
                          MapInsert(@, sr_cg.name, CgSignals(d, sr_cg.channels))],
              Tail(sr_channel_groups))

\* The loop over the channel groups, or the one Configurable of the device
\* (lines 114-137).
RECURSIVE InitConfigurables(_, _)
InitConfigurables(d, sr_channel_groups) ==
    IF sr_channel_groups = <<>> THEN d
    ELSE LET sr_cg == Head(sr_channel_groups)
         IN InitConfigurables(
              [d EXCEPT
                 !.configurables_ = Append(@, [of |-> "group", name |-> sr_cg.name]),
                 !.channel_group_name_signals_map_ =
                     MapInsert(@, sr_cg.name, CgSignals(d, sr_cg.channels))],
              Tail(sr_channel_groups))

\* The constructor (lines 58-138).
HardwareDevice(sr_device) ==
    LET opt == DeviceOptions(sr_device.keys)
        d0 == [type_ |-> opt.type,
               aborted |-> opt.aborted,
               common_time_data |-> IF opt.common THEN 1 ELSE 0,
               n_time_data |-> IF opt.common THEN 1 ELSE 0,
               all_signals_ |-> <<>>,
               signal_name_map_ |-> <<>>,
               sr_channel_signal_map_ |-> <<>>,
               voltage_signal_ |-> 0,
               current_signal_ |-> 0,
               measurement_signal_ |-> 0,
               configurables_ |-> <<>>,
               channel_group_name_signals_map_ |-> <<>>]
        d1 == InitSignals(d0, sr_device.channels, opt.fixed_mq)
    IN IF opt.aborted THEN d0
       ELSE IF Len(sr_device.groups) > 0
         THEN InitConfigurables(d1, sr_device.groups)
         ELSE [d1 EXCEPT !.configurables_ = <<[of |-> "device", name |-> ""]>>]

(***************************************************************************)
(* State.                                                                   *)
(***************************************************************************)
VARIABLES
    \* The device as constructed.
    sr_device_,                      \* the driver handle's keys, channels, groups
    type_,                           \* device type tag
    ctor_aborted,                    \* the constructor stopped at its assert
    all_signals_,                    \* the signals, in creation order
    n_time_data,                     \* number of time buffers in existence
    sr_channel_signal_map_,          \* channel id -> signal index
    channel_group_name_signals_map_, \* group name -> signal indices
    configurables_,                  \* the configurables, in creation order
    voltage_signal_, current_signal_, measurement_signal_,
    \* HardwareDevice's lifecycle fields.
    device_open_,                    \* open flag
    aquisition_state_,               \* "Stopped" or "Running"
    out_of_memory_,                  \* flag set by packet handling
    joinable,                        \* aquisition_thread_.joinable()
    \* The driver (sigrok session and device handle).
    handleOpen,                      \* sr_device_ is open
    registered,                      \* sr_device_ is added to sr_session_
    callbacks,                       \* number of datafeed callbacks installed
    sessionRunning,                  \* sr_session_ is started and not yet run out
    stopRequested,                   \* a stop of sr_session_ is pending
    \* The caller thread and the acquisition thread.
    callerPc,                        \* the caller's position: "idle" or a line
    closeFrom,                       \* who called close(): "top", "open", "dtor"
    taskPc,                          \* acquisition thread's position
    aliveTasks,                      \* acquisition threads spawned, not yet ended
    \* Observations.
    errLog,                          \* error_handler invocations of this run
    opens,                           \* open() calls so far
    packets,                         \* data packets delivered in this run
    lastOp,                          \* the operation that returned last
    closeWasOpen,                    \* device_open_ as close() tested it
    stateAtTest,                     \* aquisition_state_ as close() tested it
    stopAsked,                       \* this close() called sr_session_->stop()
    \* The identity queries and the metadata packets.
    sr_identity,                     \* vendor, model, version, serial number and
                                     \* connection id of sr_device_
    device_manager,                  \* the devices the DeviceManager knows
    result                           \* what the last query or feed_in_meta did

devVars ==
    <<sr_device_, type_, ctor_aborted, all_signals_, n_time_data,
      sr_channel_signal_map_, channel_group_name_signals_map_, configurables_,
      voltage_signal_, current_signal_, measurement_signal_>>

driverVars == <<handleOpen, registered, callbacks, sessionRunning, stopRequested>>

taskVars == <<taskPc, aliveTasks, errLog, packets, out_of_memory_>>

closeObs == <<closeWasOpen, stateAtTest, stopAsked>>

queryVars == <<sr_identity, device_manager, result>>

lifeVars ==
    <<device_open_, aquisition_state_, joinable, driverVars, taskVars,
      callerPc, closeFrom, opens, lastOp, closeObs>>

vars == <<devVars, queryVars, lifeVars>>

\* The acquisition state of a device that was never opened (the data model's
\* Closed state precedes Open(Stopped); the Device base class that sets the
\* field is not among the sources).
InitialAquisitionState == "Stopped"

\* The fields the constructor sets, for the driver handle sr_device.
Constructed(sr_device) ==
    LET d == HardwareDevice(sr_device) IN
        /\ sr_device_ = sr_device
        /\ type_ = d.type_
        /\ ctor_aborted = d.aborted
        /\ all_signals_ = d.all_signals_
        /\ n_time_data = d.n_time_data
        /\ sr_channel_signal_map_ = d.sr_channel_signal_map_
        /\ channel_group_name_signals_map_ = d.channel_group_name_signals_map_
        /\ configurables_ = d.configurables_
        /\ voltage_signal_ = d.voltage_signal_
        /\ current_signal_ = d.current_signal_
        /\ measurement_signal_ = d.measurement_signal_

\* A device that was constructed and never opened: device_open_(false)
\* (line 62), no thread, nothing asked of the driver.
NeverOpened ==
        /\ device_open_ = FALSE
        /\ aquisition_state_ = InitialAquisitionState
        /\ out_of_memory_ = FALSE
        /\ joinable = FALSE
        /\ handleOpen = FALSE
        /\ registered = FALSE
        /\ callbacks = 0
        /\ sessionRunning = FALSE
        /\ stopRequested = FALSE
        /\ callerPc = "idle"
        /\ closeFrom = "top"
        /\ taskPc = "none"
        /\ aliveTasks = 0
        /\ errLog = <<>>
        /\ opens = 0
        /\ packets = 0
        /\ lastOp = "none"
        /\ closeWasOpen = FALSE
        /\ stateAtTest = "Stopped"
        /\ stopAsked = FALSE

\* No query was made yet.
NoResult == [op |-> "none"]

\* The identity of the driver handle of the lifecycle model.
PlainIdentity ==
    [vendor |-> <<"V">>, model |-> <<"M">>, version |-> <<>>,
     serial_number |-> <<>>, connection_id |-> <<>>]

\* The state after construction from one of the modelled driver handles.
Init ==
    \E sr_device \in SrDevices :
        /\ Constructed(sr_device)
        /\ NeverOpened
        /\ sr_identity = PlainIdentity
        /\ device_manager = <<>>
        /\ result = NoResult

(***************************************************************************)
(* The caller thread: open(), close() and the destructor, one statement a   *)
(* step. callerPc names the line the caller executes next.                  *)
(***************************************************************************)
\* The caller calls open(error_handler).
CallOpen ==
    /\ callerPc = "idle"
    /\ opens < MaxOpens
    /\ callerPc' = "open_251"
    /\ opens' = opens + 1
    /\ UNCHANGED <<devVars, queryVars, device_open_, aquisition_state_, joinable, driverVars,
                   taskVars, closeFrom, lastOp, closeObs>>

\* The caller calls close().
CallClose ==
    /\ callerPc = "idle"
    /\ callerPc' = "close_298"
    /\ closeFrom' = "top"
    /\ UNCHANGED <<devVars, queryVars, device_open_, aquisition_state_, joinable, driverVars,
                   taskVars, opens, lastOp, closeObs>>

\* A variant of CallDestructor that destroys the device without close().
CallDestructor_NoClose ==
    /\ callerPc = "idle"
    /\ callerPc' = "destroyed"
    /\ closeFrom' = "dtor"
    /\ UNCHANGED <<devVars, queryVars, device_open_, aquisition_state_, joinable, driverVars,
                   taskVars, opens, lastOp, closeObs>>

\* The device is destroyed: ~HardwareDevice() calls close() (lines 140-143).
CallDestructor ==
    /\ callerPc = "idle"
    /\ callerPc' = "close_298"
    /\ closeFrom' = "dtor"
    /\ UNCHANGED <<devVars, queryVars, device_open_, aquisition_state_, joinable, driverVars,
                   taskVars, opens, lastOp, closeObs>>

\* A variant of Open_251 that does not close an open session first.
Open_251_NoClose ==
    /\ callerPc = "open_251"
    /\ callerPc' = "open_255"
    /\ UNCHANGED <<devVars, queryVars, device_open_, aquisition_state_, joinable, driverVars,
                   taskVars, closeFrom, opens, lastOp, closeObs>>

\* open(), lines 251-252: if (device_open_) close();
Open_251 ==
    /\ callerPc = "open_251"
    /\ IF device_open_
         THEN callerPc' = "close_298" /\ closeFrom' = "open"
         ELSE callerPc' = "open_255" /\ closeFrom' = closeFrom
    /\ UNCHANGED <<devVars, queryVars, device_open_, aquisition_state_, joinable, driverVars,
                   taskVars, opens, lastOp, closeObs>>

\* A variant of Open_255 that hands the driver's failure to error_handler
\* and returns normally instead of throwing.
Open_255_ToHandler ==
    /\ callerPc = "open_255"
    /\ \E ok \in BOOLEAN :
         IF ok
           THEN callerPc' = "open_261" /\ handleOpen' = TRUE /\ errLog' = errLog
                /\ lastOp' = lastOp
           ELSE callerPc' = "idle" /\ handleOpen' = handleOpen
                /\ errLog' = Append(errLog, [kind |-> "open", state |-> aquisition_state_,
                                             at |-> "open_255"])
                /\ lastOp' = "open"
    /\ UNCHANGED <<devVars, queryVars, device_open_, aquisition_state_, joinable, registered,
                   callbacks, sessionRunning, stopRequested, taskPc, aliveTasks,
                   packets, out_of_memory_, closeFrom, opens, closeObs>>

\* open(), lines 254-258: sr_device_->open() succeeds, or raises sigrok::Error
\* and open() throws to its caller.
Open_255 ==
    /\ callerPc = "open_255"
    /\ \E ok \in BOOLEAN :
         IF ok
           THEN callerPc' = "open_261" /\ handleOpen' = TRUE
           ELSE callerPc' = "open_raised" /\ handleOpen' = handleOpen
    /\ UNCHANGED <<devVars, queryVars, device_open_, aquisition_state_, joinable, registered,
                   callbacks, sessionRunning, stopRequested, taskVars, closeFrom,
                   opens, lastOp, closeObs>>

\* The exception of line 257 reaches the caller of open().
OpenRaised ==
    /\ callerPc = "open_raised"
    /\ callerPc' = "idle"
    /\ lastOp' = "open_raised"
    /\ UNCHANGED <<devVars, queryVars, device_open_, aquisition_state_, joinable, driverVars,
                   taskVars, closeFrom, opens, closeObs>>

\* A variant of Open_261 that does not add the device to the session.
Open_261_NoAddDevice ==
    /\ callerPc = "open_261"
    /\ callerPc' = "open_263"
    /\ UNCHANGED <<devVars, queryVars, device_open_, aquisition_state_, joinable, driverVars,
                   taskVars, closeFrom, opens, lastOp, closeObs>>

\* open(), line 261: sr_session_->add_device(sr_device_);
Open_261 ==
    /\ callerPc = "open_261"
    /\ callerPc' = "open_263"
    /\ registered' = TRUE
    /\ UNCHANGED <<devVars, queryVars, device_open_, aquisition_state_, joinable, handleOpen,
                   callbacks, sessionRunning, stopRequested, taskVars, closeFrom,
                   opens, lastOp, closeObs>>

\* open(), lines 263-266: sr_session_->add_datafeed_callback(...);
Open_263 ==
    /\ callerPc = "open_263"
    /\ callerPc' = "open_268"
    /\ callbacks' = callbacks + 1
    /\ UNCHANGED <<devVars, queryVars, device_open_, aquisition_state_, joinable, handleOpen,
                   registered, sessionRunning, stopRequested, taskVars, closeFrom,
                   opens, lastOp, closeObs>>

\* open(), line 268: device_open_ = true;
Open_268 ==
    /\ callerPc = "open_268"
    /\ callerPc' = "open_290"
    /\ device_open_' = TRUE
    /\ UNCHANGED <<devVars, queryVars, aquisition_state_, joinable, driverVars, taskVars,
                   closeFrom, opens, lastOp, closeObs>>

\* open(), lines 290-291: aquisition_thread_ = std::thread(...). The new
\* thread starts at the top of aquisition_thread_proc.
Open_290 ==
    /\ callerPc = "open_290"
    /\ callerPc' = "open_293"
    /\ joinable' = TRUE
    /\ taskPc' = "t419"
    /\ aliveTasks' = aliveTasks + 1
    /\ errLog' = <<>>
    /\ packets' = 0
    /\ UNCHANGED <<devVars, queryVars, device_open_, aquisition_state_, driverVars,
                   out_of_memory_, closeFrom, opens, lastOp, closeObs>>

\* open(), line 293: aquisition_state_ = Running; and open() returns.
Open_293 ==
    /\ callerPc = "open_293"
    /\ callerPc' = "idle"
    /\ aquisition_state_' = "Running"
    /\ lastOp' = "open"
    /\ UNCHANGED <<devVars, queryVars, device_open_, joinable, driverVars, taskVars,
                   closeFrom, opens, closeObs>>

\* A variant of Close_298 without the early return.
Close_298_NoGuard ==
    /\ callerPc = "close_298"
    /\ callerPc' = "close_301"
    /\ closeWasOpen' = device_open_
    /\ stopAsked' = FALSE
    /\ UNCHANGED <<devVars, queryVars, device_open_, aquisition_state_, joinable, driverVars,
                   taskVars, closeFrom, opens, lastOp, stateAtTest>>

\* close(), lines 298-299: if (!device_open_) return;
Close_298 ==
    /\ callerPc = "close_298"
    /\ callerPc' = IF device_open_ THEN "close_301" ELSE "close_ret"
    /\ closeWasOpen' = device_open_
    /\ stopAsked' = FALSE
    /\ UNCHANGED <<devVars, queryVars, device_open_, aquisition_state_, joinable, driverVars,
                   taskVars, closeFrom, opens, lastOp, stateAtTest>>

\* close(), line 301: sr_session_->remove_datafeed_callbacks();
Close_301 ==
    /\ callerPc = "close_301"
    /\ callerPc' = "close_303"
    /\ callbacks' = 0
    /\ UNCHANGED <<devVars, queryVars, device_open_, aquisition_state_, joinable, handleOpen,
                   registered, sessionRunning, stopRequested, taskVars, closeFrom,
                   opens, lastOp, closeObs>>

\* close(), line 303: if (aquisition_state_ != aquisition_state::Stopped)
Close_303 ==
    /\ callerPc = "close_303"
    /\ callerPc' = IF aquisition_state_ # "Stopped" THEN "close_304" ELSE "close_309"
    /\ stateAtTest' = aquisition_state_
    /\ UNCHANGED <<devVars, queryVars, device_open_, aquisition_state_, joinable, driverVars,
                   taskVars, closeFrom, opens, lastOp, closeWasOpen, stopAsked>>

\* close(), line 304: sr_session_->stop(). The driver notes the request on a
\* running session; on a session that is not running the request is either
\* kept for the next run or dropped.
Close_304 ==
    /\ callerPc = "close_304"
    /\ callerPc' = "close_305"
    /\ stopAsked' = TRUE
    /\ \E kept \in BOOLEAN : stopRequested' = (sessionRunning \/ stopRequested \/ kept)
    /\ UNCHANGED <<devVars, queryVars, device_open_, aquisition_state_, joinable, handleOpen,
                   registered, callbacks, sessionRunning, taskVars, closeFrom,
                   opens, lastOp, closeWasOpen, stateAtTest>>

\* close(), line 305: aquisition_state_ = aquisition_state::Stopped;
Close_305 ==
    /\ callerPc = "close_305"
    /\ callerPc' = "close_309"
    /\ aquisition_state_' = "Stopped"
    /\ UNCHANGED <<devVars, queryVars, device_open_, joinable, driverVars, taskVars,
                   closeFrom, opens, lastOp, closeObs>>

\* A variant of Close_309 that detaches the thread instead of joining it.
Close_309_NoJoin ==
    /\ callerPc = "close_309"
    /\ callerPc' = "close_312"
    /\ joinable' = FALSE
    /\ UNCHANGED <<devVars, queryVars, device_open_, aquisition_state_, driverVars, taskVars,
                   closeFrom, opens, lastOp, closeObs>>

\* close(), lines 309-310: if (joinable()) join(); join() returns once the
\* acquisition thread has ended.
Close_309 ==
    /\ callerPc = "close_309"
    /\ joinable => taskPc = "done"
    /\ callerPc' = "close_312"
    /\ joinable' = FALSE
    /\ UNCHANGED <<devVars, queryVars, device_open_, aquisition_state_, driverVars, taskVars,
                   closeFrom, opens, lastOp, closeObs>>

\* close(), line 312: sr_session_->remove_devices();
Close_312 ==
    /\ callerPc = "close_312"
    /\ callerPc' = "close_313"
    /\ registered' = FALSE
    /\ UNCHANGED <<devVars, queryVars, device_open_, aquisition_state_, joinable, handleOpen,
                   callbacks, sessionRunning, stopRequested, taskVars, closeFrom,
                   opens, lastOp, closeObs>>

\* close(), line 313: sr_device_->close();
Close_313 ==
    /\ callerPc = "close_313"
    /\ callerPc' = "close_314"
    /\ handleOpen' = FALSE
    /\ UNCHANGED <<devVars, queryVars, device_open_, aquisition_state_, joinable, registered,
                   callbacks, sessionRunning, stopRequested, taskVars, closeFrom,
                   opens, lastOp, closeObs>>

\* close(), line 314: device_open_ = false;
Close_314 ==
    /\ callerPc = "close_314"
    /\ callerPc' = "close_ret"
    /\ device_open_' = FALSE
    /\ UNCHANGED <<devVars, queryVars, aquisition_state_, joinable, driverVars, taskVars,
                   closeFrom, opens, lastOp, closeObs>>

\* close() returns: to open() at line 254, to the destructor, or to the caller.
CloseReturn ==
    /\ callerPc = "close_ret"
    /\ callerPc' = CASE closeFrom = "open" -> "open_255"
                     [] closeFrom = "dtor" -> "destroyed"
                     [] OTHER -> "idle"
    /\ lastOp' = IF closeFrom = "top" THEN "close" ELSE lastOp
    /\ UNCHANGED <<devVars, queryVars, device_open_, aquisition_state_, joinable, driverVars,
                   taskVars, closeFrom, opens, closeObs>>

(***************************************************************************)
(* The acquisition thread: aquisition_thread_proc (lines 414-454), one      *)
(* statement a step. taskPc names the line the thread executes next.        *)
(***************************************************************************)
\* One invocation of error_handler: what it reports, the acquisition state
\* at that moment and the line it is called from.
Invocation(kind, at) == [kind |-> kind, state |-> aquisition_state_, at |-> at]

\* line 419: out_of_memory_ = false;
Task_419 ==
    /\ taskPc = "t419"
    /\ taskPc' = "t422"
    /\ out_of_memory_' = FALSE
    /\ UNCHANGED <<devVars, queryVars, device_open_, aquisition_state_, joinable, driverVars,
                   aliveTasks, errLog, packets, callerPc, closeFrom, opens, lastOp,
                   closeObs>>

\* lines 421-423: sr_session_->start() succeeds, or raises sigrok::Error.
Task_422 ==
    /\ taskPc = "t422"
    /\ \E ok \in BOOLEAN :
         IF ok
           THEN taskPc' = "t428" /\ sessionRunning' = TRUE
           ELSE taskPc' = "t424" /\ sessionRunning' = sessionRunning
    /\ UNCHANGED <<devVars, queryVars, device_open_, aquisition_state_, joinable, handleOpen,
                   registered, callbacks, stopRequested, aliveTasks, errLog, packets,
                   out_of_memory_, callerPc, closeFrom, opens, lastOp, closeObs>>

\* lines 424-425: error_handler(e.what()); return;
Task_424 ==
    /\ taskPc = "t424"
    /\ taskPc' = "done"
    /\ aliveTasks' = aliveTasks - 1
    /\ errLog' = Append(errLog, Invocation("start", "t424"))
    /\ UNCHANGED <<devVars, queryVars, device_open_, aquisition_state_, joinable, driverVars,
                   packets, out_of_memory_, callerPc, closeFrom, opens, lastOp,
                   closeObs>>

\* line 428: aquisition_state_ = aquisition_state::Running;
Task_428 ==
    /\ taskPc = "t428"
    /\ taskPc' = "t431"
    /\ aquisition_state_' = "Running"
    /\ UNCHANGED <<devVars, queryVars, device_open_, joinable, driverVars, aliveTasks, errLog,
                   packets, out_of_memory_, callerPc, closeFrom, opens, lastOp,
                   closeObs>>

\* line 431, inside sr_session_->run(): the driver delivers a data packet to
\* the installed callback, which calls data_feed_in. An allocation failure
\* while appending sets out_of_memory_ and does not leave the callback.
DataFeedIn ==
    /\ taskPc = "t431"
    /\ callbacks > 0
    /\ packets < MaxPackets
    /\ packets' = packets + 1
    /\ \E bad_alloc \in BOOLEAN : out_of_memory_' = (out_of_memory_ \/ bad_alloc)
    /\ UNCHANGED <<devVars, queryVars, device_open_, aquisition_state_, joinable, driverVars,
                   taskPc, aliveTasks, errLog, callerPc, closeFrom, opens, lastOp,
                   closeObs>>

\* line 431: sr_session_->run() returns because a stop was requested.
RunStopped ==
    /\ taskPc = "t431"
    /\ stopRequested
    /\ taskPc' = "t438"
    /\ sessionRunning' = FALSE
    /\ stopRequested' = FALSE
    /\ UNCHANGED <<devVars, queryVars, device_open_, aquisition_state_, joinable, handleOpen,
                   registered, callbacks, aliveTasks, errLog, packets,
                   out_of_memory_, callerPc, closeFrom, opens, lastOp, closeObs>>

\* line 431: sr_session_->run() returns because the driver ended the
\* acquisition by itself.
RunCompleted ==
    /\ taskPc = "t431"
    /\ ~stopRequested
    /\ taskPc' = "t438"
    /\ sessionRunning' = FALSE
    /\ UNCHANGED <<devVars, queryVars, device_open_, aquisition_state_, joinable, handleOpen,
                   registered, callbacks, stopRequested, aliveTasks, errLog, packets,
                   out_of_memory_, callerPc, closeFrom, opens, lastOp, closeObs>>

\* lines 431-432: sr_session_->run() raises sigrok::Error.
RunRaised ==
    /\ taskPc = "t431"
    /\ taskPc' = "t433"
    /\ sessionRunning' = FALSE
    /\ stopRequested' = FALSE
    /\ UNCHANGED <<devVars, queryVars, device_open_, aquisition_state_, joinable, handleOpen,
                   registered, callbacks, aliveTasks, errLog, packets,
                   out_of_memory_, callerPc, closeFrom, opens, lastOp, closeObs>>

\* line 433: error_handler(e.what());
Task_433 ==
    /\ taskPc = "t433"
    /\ taskPc' = "t434"
    /\ errLog' = Append(errLog, Invocation("run", "t433"))
    /\ UNCHANGED <<devVars, queryVars, device_open_, aquisition_state_, joinable, driverVars,
                   aliveTasks, packets, out_of_memory_, callerPc, closeFrom, opens,
                   lastOp, closeObs>>

\* A variant of Task_434 without the return of line 435: the thread goes on
\* to line 438.
Task_434_NoReturn ==
    /\ taskPc = "t434"
    /\ taskPc' = "t438"
    /\ aquisition_state_' = "Stopped"
    /\ UNCHANGED <<devVars, queryVars, device_open_, joinable, driverVars, aliveTasks, errLog,
                   packets, out_of_memory_, callerPc, closeFrom, opens, lastOp,
                   closeObs>>

\* lines 434-435: aquisition_state_ = aquisition_state::Stopped; return;
Task_434 ==
    /\ taskPc = "t434"
    /\ taskPc' = "done"
    /\ aliveTasks' = aliveTasks - 1
    /\ aquisition_state_' = "Stopped"
    /\ UNCHANGED <<devVars, queryVars, device_open_, joinable, driverVars, errLog, packets,
                   out_of_memory_, callerPc, closeFrom, opens, lastOp, closeObs>>

\* lines 438-441: aquisition_state_ = aquisition_state::Stopped;
\* free_unused_memory();
Task_438 ==
    /\ taskPc = "t438"
    /\ taskPc' = "t452"
    /\ aquisition_state_' = "Stopped"
    /\ UNCHANGED <<devVars, queryVars, device_open_, joinable, driverVars, aliveTasks, errLog,
                   packets, out_of_memory_, callerPc, closeFrom, opens, lastOp,
                   closeObs>>

\* lines 452-454: if (out_of_memory_) error_handler(...); and the thread ends.
Task_452 ==
    /\ taskPc = "t452"
    /\ taskPc' = "done"
    /\ aliveTasks' = aliveTasks - 1
    /\ errLog' = IF out_of_memory_
                   THEN Append(errLog, Invocation("oom", "t452")) ELSE errLog
    /\ UNCHANGED <<devVars, queryVars, device_open_, aquisition_state_, joinable, driverVars,
                   packets, out_of_memory_, callerPc, closeFrom, opens, lastOp,
                   closeObs>>

(***************************************************************************)
(* Specifications.                                                          *)
(***************************************************************************)
\* The steps of close().
CloseStep ==
    \/ Close_298 \/ Close_301 \/ Close_303 \/ Close_304 \/ Close_305
    \/ Close_309 \/ Close_312 \/ Close_313 \/ Close_314 \/ CloseReturn

\* The steps of the acquisition thread that are its own (not the driver's).
TaskStep ==
    \/ Task_419 \/ Task_422 \/ Task_424 \/ Task_428
    \/ Task_433 \/ Task_434 \/ Task_438 \/ Task_452

\* The steps of open().
OpenStep ==
    \/ Open_251 \/ Open_255 \/ OpenRaised \/ Open_261 \/ Open_263 \/ Open_268
    \/ Open_290 \/ Open_293

Next ==
    \/ CallOpen \/ CallClose \/ CallDestructor
    \/ OpenStep
    \/ CloseStep
    \/ TaskStep
    \/ DataFeedIn \/ RunStopped \/ RunCompleted \/ RunRaised

Spec == Init /\ [][Next]_vars

\* Both threads keep running, and the driver's run loop returns when a stop
\* is pending; the driver need not end an acquisition by itself.
FairSpec ==
    /\ Init /\ [][Next]_vars
    /\ WF_vars(OpenStep)
    /\ WF_vars(CloseStep)
    /\ WF_vars(TaskStep)
    /\ WF_vars(RunStopped)

(***************************************************************************)
(* Properties.                                                              *)
(***************************************************************************)
\* The caller is inside open(), between the return of a close() that open()
\* called and the spawn of the new acquisition thread.
InOpenBeforeSpawn == callerPc \in {"open_255", "open_261", "open_263", "open_268", "open_290"}

\* C1: open() on an open session closes the previous session first. When
\* open() is about to open the driver handle (line 255) the previous
\* acquisition thread has ended and been joined, no packet callback is
\* installed and the driver handle is closed; no acquisition thread is alive
\* from there to the spawn of the new one (line 290); and never are two
\* acquisition threads alive.
C1_ReopenClosesFirst ==
    /\ aliveTasks <= 1
    /\ InOpenBeforeSpawn => aliveTasks = 0 /\ ~joinable /\ taskPc \in {"none", "done"}
    /\ callerPc = "open_255" => callbacks = 0 /\ ~handleOpen /\ ~registered /\ ~device_open_

\* C1's case: a second open() found the session open, closed it (its thread
\* ran and was joined) and is about to open the driver handle again.
C1_Witness ==
    /\ callerPc = "open_255"
    /\ closeFrom = "open"
    /\ closeWasOpen
    /\ opens = 2
    /\ taskPc = "done"

\* C2: when close() returns on a session that was open, the packet callback
\* is removed, the driver was asked to stop exactly when the state close()
\* tested was not Stopped, the acquisition thread has ended and is joined,
\* the device is unregistered, the driver handle is closed, the session is
\* not open and the acquisition state is Stopped.
C2_CloseTearsDown ==
    (callerPc = "close_ret" /\ closeWasOpen) =>
        /\ callbacks = 0
        /\ stopAsked <=> (stateAtTest # "Stopped")
        /\ taskPc = "done"
        /\ aliveTasks = 0
        /\ ~joinable
        /\ ~registered
        /\ ~handleOpen
        /\ ~device_open_
        /\ aquisition_state_ = "Stopped"

\* C2's case: close() returns on an open session whose thread it had to stop.
C2_Witness ==
    /\ callerPc = "close_ret"
    /\ closeWasOpen
    /\ stopAsked
    /\ errLog = <<>>

\* C3: a step of open() in which the driver handle fails to open throws to
\* the caller, invokes no error_handler, and leaves the session not open,
\* with no packet callback, the device not registered, the handle closed
\* and no acquisition thread.
C3_OpenFailureIsSynchronous ==
    [][ (callerPc = "open_255" /\ callerPc' # callerPc /\ ~handleOpen') =>
          /\ callerPc' = "open_raised"
          /\ errLog' = errLog
          /\ ~device_open_'
          /\ callbacks' = 0
          /\ ~registered'
          /\ ~joinable'
          /\ aliveTasks' = 0 ]_vars

\* C3's case: the driver handle failed to open in a re-open, after a first
\* session that had run.
C3_Witness ==
    /\ callerPc = "open_raised"
    /\ opens = 2
    /\ closeFrom = "open"
    /\ taskPc = "done"

\* The error_handler invocations of the current run that report kind.
Reports(kind) == {i \in DOMAIN errLog : errLog[i].kind = kind}

\* C4: when the acquisition thread has ended and out of memory was flagged
\* in its run, error_handler was invoked for it exactly once; and every
\* invocation for out of memory is made from line 453, after line 438 set
\* the state to Stopped, never from the packet callback.
C4_OomReportedOnce ==
    /\ \A i \in Reports("oom") : errLog[i].at = "t452"
    /\ (taskPc = "done" /\ out_of_memory_) => Cardinality(Reports("oom")) = 1

\* C5: whenever the acquisition thread invokes error_handler, the
\* acquisition state is Stopped.
C5_ErrorsReportedWhenStopped ==
    \A i \in DOMAIN errLog : errLog[i].state = "Stopped"

\* C6: when the start of the driver session failed, the thread has ended and
\* open() has returned, the error was reported once, the run loop was never
\* entered and the acquisition state is Stopped.
C6_StartErrorLeavesStopped ==
    (taskPc = "done" /\ callerPc = "idle" /\ lastOp = "open" /\ Reports("start") # {}) =>
        /\ Len(errLog) = 1
        /\ packets = 0
        /\ aquisition_state_ = "Stopped"

\* C7: every close() entered on an open session returns.
C7_CloseReturns ==
    (callerPc = "close_298" /\ device_open_) ~> (callerPc = "close_ret")

\* C8: close() on a session that is not open returns at once: its steps
\* change nothing of the device, its flags, the acquisition state, the
\* thread or the driver.
C8_CloseNotOpenIsNoOp ==
    [][ /\ (callerPc = "close_298" /\ ~device_open_ /\ callerPc' # callerPc) =>
            /\ callerPc' = "close_ret"
            /\ UNCHANGED <<devVars, queryVars, device_open_, aquisition_state_, joinable,
                           driverVars, taskVars>>
        /\ (callerPc = "close_ret" /\ ~closeWasOpen /\ callerPc' # callerPc) =>
            UNCHANGED <<devVars, queryVars, device_open_, aquisition_state_, joinable,
                        driverVars, taskVars>> ]_vars

\* C8's case: a close() that follows a close() of a session that had been
\* open returns without having found the session open.
C8_Witness ==
    /\ callerPc = "close_ret"
    /\ closeFrom = "top"
    /\ ~closeWasOpen
    /\ lastOp = "close"
    /\ taskPc = "done"

\* C9: a device of type Unknown is reported at construction: the constructor
\* stops, and creates no signal and no configurable.
C9_UnknownTypeIsReported ==
    type_ = "UNKNOWN" =>
        ctor_aborted /\ all_signals_ = <<>> /\ configurables_ = <<>>

\* The analog channels of the driver handle.
AnalogChannels ==
    {i \in DOMAIN sr_device_.channels : sr_device_.channels[i].type = "ANALOG"}

\* C10: an electronic load has exactly one time buffer, which every signal
\* references; a power supply, multimeter or demo device has one time buffer
\* per signal, pairwise distinct; the signals are those of the analog
\* channels; in every state open(), close() and the acquisition reach.
C10_TimeBufferSharing ==
    /\ type_ # "UNKNOWN" => Len(all_signals_) = Cardinality(AnalogChannels)
    /\ type_ = "ELECTRONIC_LOAD" =>
         /\ n_time_data = 1
         /\ \A i \in DOMAIN all_signals_ : all_signals_[i].time_data = 1
    /\ type_ \in {"POWER_SUPPLY", "MULTIMETER", "DEMO_DEV"} =>
         /\ n_time_data = Len(all_signals_)
         /\ \A i \in DOMAIN all_signals_ : all_signals_[i].time_data \in 1..n_time_data
         /\ \A i, j \in DOMAIN all_signals_ :
              i # j => all_signals_[i].time_data # all_signals_[j].time_data

\* C10's case: an electronic load with two signals, after a session of it
\* was opened, ran and was closed.
C10_Witness ==
    /\ type_ = "ELECTRONIC_LOAD"
    /\ Len(all_signals_) = 2
    /\ callerPc = "close_ret"
    /\ closeWasOpen
    /\ taskPc = "done"

(***************************************************************************)
(* The constructor over every short list of channels and the accessors of  *)
(* what it built.                                                           *)
(***************************************************************************)
\* The channels a driver may report: two of each naming convention, a name
\* of no convention, and a logic channel.
CtorChannelPool ==
    << [id |-> 1, name |-> <<"V", "1">>, type |-> "ANALOG"],
       [id |-> 2, name |-> <<"V", "2">>, type |-> "ANALOG"],
       [id |-> 3, name |-> <<"I", "1">>, type |-> "ANALOG"],
       [id |-> 4, name |-> <<"I", "2">>, type |-> "ANALOG"],
       [id |-> 5, name |-> <<"F", "1">>, type |-> "ANALOG"],
       [id |-> 6, name |-> <<"P", "1">>, type |-> "ANALOG"],
       [id |-> 7, name |-> <<"P", "2">>, type |-> "ANALOG"],
       [id |-> 8, name |-> <<"A", "1">>, type |-> "ANALOG"],
       [id |-> 9, name |-> <<"A", "2">>, type |-> "ANALOG"],
       [id |-> 10, name |-> <<"D", "0">>, type |-> "LOGIC"] >>

\* Every list of up to MaxCtorChannels distinct channels, in every order.
CtorChannelLists ==
    UNION { { [i \in 1..n |-> CtorChannelPool[f[i]]] :
                f \in { g \in [1..n -> 1..Len(CtorChannelPool)] :
                          \A i, j \in 1..n : i # j => g[i] # g[j] } } :
            n \in 0..MaxCtorChannels }

\* The channel groups of a channel list, in the order of their names: none;
\* one group of all channels; two disjoint groups; or, as the sigrok demo
\* driver reports them, a group of one channel and a group "Analog" of all.
CtorGroupLists(chs) ==
    LET ids == [i \in 1..Len(chs) |-> chs[i].id]
        first == IF Len(ids) = 0 THEN <<>> ELSE <<ids[1]>>
        rest == IF Len(ids) <= 1 THEN <<>> ELSE SubSeq(ids, 2, Len(ids))
    IN { <<>>,
         << [name |-> "1", channels |-> ids] >>,
         << [name |-> "1", channels |-> first], [name |-> "2", channels |-> rest] >>,
         << [name |-> "1", channels |-> first], [name |-> "Analog", channels |-> ids] >> }

CtorSrDevices ==
    UNION { { [keys |-> ks, channels |-> chs, groups |-> gs] :
                ks \in KeySets, gs \in CtorGroupLists(chs) } : chs \in CtorChannelLists }

CtorInit ==
    \E sr_device \in CtorSrDevices :
        /\ Constructed(sr_device)
        /\ NeverOpened
        /\ sr_identity = PlainIdentity
        /\ device_manager = <<>>
        /\ result = NoResult

\* The accessors (lines 457-486) return the field as it is.
Returns(op, value) ==
    /\ result' = [op |-> op, value |-> value]
    /\ UNCHANGED <<devVars, sr_identity, device_manager, lifeVars>>

voltage_signal == Returns("voltage_signal", voltage_signal_)

current_signal == Returns("current_signal", current_signal_)

measurement_signal == Returns("measurement_signal", measurement_signal_)

all_signals == Returns("all_signals", all_signals_)

channel_group_name_signals_map ==
    Returns("channel_group_name_signals_map", channel_group_name_signals_map_)

configurables == Returns("configurables", configurables_)

CtorNext ==
    \/ voltage_signal
    \/ current_signal
    \/ measurement_signal
    \/ all_signals
    \/ channel_group_name_signals_map
    \/ configurables

CtorSpec == CtorInit /\ [][CtorNext]_vars


(***************************************************************************)
(* full_name, short_name and display_name. A string is a sequence of       *)
(* characters.                                                              *)
(***************************************************************************)
\* The identities a driver handle may report: every field empty or not.
Identities ==
    [vendor : {<<>>, <<"V">>}, model : {<<>>, <<"M">>}, version : {<<>>, <<"1">>},
     serial_number : {<<>>, <<"S">>}, connection_id : {<<>>, <<"C">>}]

\* The handle (sr_device_) of this device, and the devices the Device
\* Manager may know: this device, or a device of another handle.
SelfHandle == 0

KnownDevice(id) == [sr_device_ |-> SelfHandle, vendor |-> id.vendor, model |-> id.model]

OtherDevices ==
    [sr_device_ : {1}, vendor : {<<>>, <<"V">>, <<"W">>}, model : {<<>>, <<"M">>}]

DeviceManagers(id) ==
    UNION { [1..n -> {KnownDevice(id)} \cup OtherDevices] : n \in 0..MaxKnownDevices }

\* The device whose names are asked for.
NamedSrDevice == [keys |-> {"POWER_SUPPLY"}, channels |-> PoolPrefix(1), groups |-> <<>>]

NameInit ==
    /\ Constructed(NamedSrDevice)
    /\ NeverOpened
    /\ sr_identity \in Identities
    /\ device_manager \in DeviceManagers(sr_identity)
    /\ result = NoResult

\* One block of full_name (lines 150-154): a non-empty field is appended,
\* then the separator, then the separator becomes a space.
AppendField(acc, field) ==
    IF Len(field) > 0
      THEN [name |-> acc.name \o field \o acc.sep, sep |-> <<" ">>]
      ELSE acc

\* The last block (lines 174-179): the separator, then the connection id in
\* parentheses.
AppendConnectionId(acc, connection_id) ==
    IF Len(connection_id) > 0
      THEN acc.name \o acc.sep \o <<"(">> \o connection_id \o <<")">>
      ELSE acc.name

\* sep("") and name("") (lines 147-148).
EmptyName == [name |-> <<>>, sep |-> <<>>]

full_name ==
    AppendConnectionId(
        AppendField(AppendField(AppendField(AppendField(EmptyName,
            sr_identity.vendor), sr_identity.model), sr_identity.version),
            sr_identity.serial_number),
        sr_identity.connection_id)

short_name ==
    AppendConnectionId(
        AppendField(AppendField(EmptyName, sr_identity.vendor), sr_identity.model),
        sr_identity.connection_id)

\* boost::algorithm::join: the parts, empty ones too, with the separator
\* between every two.
RECURSIVE join(_, _)
join(parts, sep) ==
    IF parts = <<>> THEN <<>>
    ELSE IF Len(parts) = 1 THEN parts[1]
    ELSE parts[1] \o sep \o join(Tail(parts), sep)

\* A variant of display_name that takes any device of the same vendor and
\* model for another device, the device itself too.
display_name_CountsSelf(devices) ==
    LET multiple_dev ==
            \E i \in 1..Len(devices) :
                /\ devices[i].vendor = sr_identity.vendor
                /\ devices[i].model = sr_identity.model
        parts ==
            <<sr_identity.vendor, sr_identity.model>>
            \o (IF multiple_dev
                  THEN <<sr_identity.version, sr_identity.serial_number>>
                       \o (IF Len(sr_identity.serial_number) = 0
                              /\ Len(sr_identity.connection_id) > 0
                             THEN << <<"(">> \o sr_identity.connection_id \o <<")">> >>
                             ELSE <<>>)
                  ELSE <<>>)
    IN join(parts, <<" ">>)

\* display_name (lines 216-247) with the devices of the Device Manager.
display_name(devices) ==
    LET multiple_dev ==
            \E i \in 1..Len(devices) :
                /\ devices[i].vendor = sr_identity.vendor
                /\ devices[i].model = sr_identity.model
                /\ devices[i].sr_device_ # SelfHandle
        parts ==
            <<sr_identity.vendor, sr_identity.model>>
            \o (IF multiple_dev
                  THEN <<sr_identity.version, sr_identity.serial_number>>
                       \o (IF Len(sr_identity.serial_number) = 0
                              /\ Len(sr_identity.connection_id) > 0
                             THEN << <<"(">> \o sr_identity.connection_id \o <<")">> >>
                             ELSE <<>>)
                  ELSE <<>>)
    IN join(parts, <<" ">>)

CallFullName == Returns("full_name", full_name)

CallShortName == Returns("short_name", short_name)

CallDisplayName == Returns("display_name", display_name(device_manager))

NameNext ==
    \/ CallFullName
    \/ CallShortName
    \/ CallDisplayName

NameSpec == NameInit /\ [][NameNext]_vars

(***************************************************************************)
(* feed_in_meta.                                                            *)
(***************************************************************************)
\* The keys of the case labels of the switch (lines 499-555), by the getter
\* applied to the value.
BooleanKeys ==
    {"ENABLED", "OVER_TEMPERATURE_PROTECTION", "OVER_TEMPERATURE_PROTECTION_ACTIVE",
     "OVER_VOLTAGE_PROTECTION_ENABLED", "OVER_VOLTAGE_PROTECTION_ACTIVE",
     "OVER_CURRENT_PROTECTION_ENABLED", "OVER_CURRENT_PROTECTION_ACTIVE",
     "UNDER_VOLTAGE_CONDITION", "UNDER_VOLTAGE_CONDITION_ACTIVE"}

DoubleKeys ==
    {"VOLTAGE_TARGET", "CURRENT_LIMIT", "OVER_VOLTAGE_PROTECTION_THRESHOLD",
     "OVER_CURRENT_PROTECTION_THRESHOLD"}

\* Keys of no case label: the one of the commented-out case (lines 556-561)
\* and a key the switch never names.
OtherKeys == {"UNDER_VOLTAGE_CONDITION_THRESHOLD", "SAMPLERATE"}

\* The values a driver sends with a key: a GVariant of the type of the key.
VariantsOf(key) ==
    IF key \in BooleanKeys THEN [type : {"boolean"}, value : BOOLEAN]
    ELSE IF key = "SAMPLERATE" THEN [type : {"uint64"}, value : {0, 1}]
    ELSE [type : {"double"}, value : {0, 1}]

MetaEntries ==
    UNION { [key : {key}, value : VariantsOf(key)] :
              key \in BooleanKeys \cup DoubleKeys \cup OtherKeys }

\* sr_meta->config() is a map: the entries of a packet have different keys.
MetaPackets ==
    UNION { { packet \in [1..n -> MetaEntries] :
                \A i, j \in 1..n : i # j => packet[i].key # packet[j].key } :
            n \in 0..MaxMetaEntries }

g_variant_get_boolean(variant) ==
    IF variant.type = "boolean" THEN variant.value ELSE FALSE

g_variant_get_double(variant) ==
    IF variant.type = "double" THEN variant.value ELSE 0

\* A variant of MetaSignal in which the case of the under-voltage threshold
\* is not commented out.
MetaSignal_WithUvcThreshold(key) ==
    CASE key = "ENABLED" -> "enabled_changed"
      [] key = "VOLTAGE_TARGET" -> "voltage_target_changed"
      [] key = "CURRENT_LIMIT" -> "current_limit_changed"
      [] key = "OVER_TEMPERATURE_PROTECTION" -> "otp_enabled_changed"
      [] key = "OVER_TEMPERATURE_PROTECTION_ACTIVE" -> "otp_active_changed"
      [] key = "OVER_VOLTAGE_PROTECTION_ENABLED" -> "ovp_enabled_changed"
      [] key = "OVER_VOLTAGE_PROTECTION_ACTIVE" -> "ovp_active_changed"
      [] key = "OVER_VOLTAGE_PROTECTION_THRESHOLD" -> "ovp_threshold_changed"
      [] key = "OVER_CURRENT_PROTECTION_ENABLED" -> "ocp_enabled_changed"
      [] key = "OVER_CURRENT_PROTECTION_ACTIVE" -> "ocp_active_changed"
      [] key = "OVER_CURRENT_PROTECTION_THRESHOLD" -> "ocp_threshold_changed"
      [] key = "UNDER_VOLTAGE_CONDITION" -> "uvc_enabled_changed"
      [] key = "UNDER_VOLTAGE_CONDITION_ACTIVE" -> "uvc_active_changed"
      [] key = "UNDER_VOLTAGE_CONDITION_THRESHOLD" -> "uvc_threshold_changed"
      [] OTHER -> "default"

\* The Qt signal emitted under the case label of a key (lines 500-555), or
\* "default" for the default label.
MetaSignal(key) ==
    CASE key = "ENABLED" -> "enabled_changed"
      [] key = "VOLTAGE_TARGET" -> "voltage_target_changed"
      [] key = "CURRENT_LIMIT" -> "current_limit_changed"
      [] key = "OVER_TEMPERATURE_PROTECTION" -> "otp_enabled_changed"
      [] key = "OVER_TEMPERATURE_PROTECTION_ACTIVE" -> "otp_active_changed"
      [] key = "OVER_VOLTAGE_PROTECTION_ENABLED" -> "ovp_enabled_changed"
      [] key = "OVER_VOLTAGE_PROTECTION_ACTIVE" -> "ovp_active_changed"
      [] key = "OVER_VOLTAGE_PROTECTION_THRESHOLD" -> "ovp_threshold_changed"
      [] key = "OVER_CURRENT_PROTECTION_ENABLED" -> "ocp_enabled_changed"
      [] key = "OVER_CURRENT_PROTECTION_ACTIVE" -> "ocp_active_changed"
      [] key = "OVER_CURRENT_PROTECTION_THRESHOLD" -> "ocp_threshold_changed"
      [] key = "UNDER_VOLTAGE_CONDITION" -> "uvc_enabled_changed"
      [] key = "UNDER_VOLTAGE_CONDITION_ACTIVE" -> "uvc_active_changed"
      [] OTHER -> "default"

\* One turn of the loop (lines 498-566): what is emitted for an entry, on
\* the Configurable of the given index.
MetaEmit(configurable, entry) ==
    LET signal == MetaSignal(entry.key)
    IN IF signal = "default" THEN <<>>
       ELSE << [configurable |-> configurable,
                signal |-> signal,
                value |-> IF entry.key \in BooleanKeys
                            THEN g_variant_get_boolean(entry.value)
                            ELSE g_variant_get_double(entry.value)] >>

RECURSIVE MetaLoop(_, _)
MetaLoop(configurable, packet) ==
    IF packet = <<>> THEN <<>>
    ELSE MetaEmit(configurable, Head(packet)) \o MetaLoop(configurable, Tail(packet))

\* feed_in_meta (lines 488-569) on the packet handed to it:
\* configurables_.at(0) is the first Configurable; a device has one at least.
feed_in_meta ==
    /\ result.op \in {"sr_meta", "feed_in_meta"}
    /\ Len(configurables_) > 0
    /\ result' = [op |-> "feed_in_meta",
                  sr_meta |-> result.sr_meta,
                  emitted |-> MetaLoop(0, result.sr_meta),
                  raised |-> FALSE]
    /\ UNCHANGED <<devVars, sr_identity, device_manager, lifeVars>>

\* A device of one channel and no group, one group or two groups, and the
\* metadata packet the session hands to feed_in_meta.
MetaSrDevices ==
    {d \in CtorSrDevices : d.keys = {"POWER_SUPPLY"} /\ d.channels = PoolPrefix(1)}

MetaInit ==
    \E sr_device \in MetaSrDevices :
        /\ Constructed(sr_device)
        /\ NeverOpened
        /\ sr_identity = PlainIdentity
        /\ device_manager = <<>>
        /\ \E sr_meta \in MetaPackets :
              result = [op |-> "sr_meta", sr_meta |-> sr_meta,
                        emitted |-> <<>>, raised |-> FALSE]

MetaNext == feed_in_meta

MetaSpec == MetaInit /\ [][MetaNext]_vars

\* The signals of the device, by index.
Signals == 1..Len(all_signals_)

\* C11: every signal of a power supply or an electronic load has the
\* fixed-quantity flag set, and every signal of a multimeter or a demo
\* device has it cleared, whatever the name of its channel.
C11_FixedQuantityByType ==
    \A i \in Signals :
        /\ type_ \in {"POWER_SUPPLY", "ELECTRONIC_LOAD"} => all_signals_[i].fixed_mq = TRUE
        /\ type_ \in {"MULTIMETER", "DEMO_DEV"} => all_signals_[i].fixed_mq = FALSE

\* An electronic load hands out a signal of a name of no convention, with
\* the flag set.
C11_Witness ==
    /\ result.op = "all_signals"
    /\ type_ = "ELECTRONIC_LOAD"
    /\ \E i \in 1..Len(result.value) :
          /\ result.value[i].internal_name = <<"P", "2">>
          /\ result.value[i].fixed_mq = TRUE

\* C12: quantity and unit of a signal depend on the internal name only:
\* prefix "V" gives Voltage/Volt, else prefix "I" gives Current/Ampere, else
\* prefix "F" gives Frequency/Hertz, else the name "P1" gives neither, else
\* prefix "A" gives Voltage/Volt, and any other name gives neither.
C12_QuantityByName ==
    \A i \in Signals :
        LET name == all_signals_[i].internal_name
            data == all_signals_[i].data
        IN <<data.quantity, data.unit>> =
              IF Len(name) > 0 /\ name[1] = "V" THEN <<"VOLTAGE", "VOLT">>
              ELSE IF Len(name) > 0 /\ name[1] = "I" THEN <<"CURRENT", "AMPERE">>
              ELSE IF Len(name) > 0 /\ name[1] = "F" THEN <<"FREQUENCY", "HERTZ">>
              ELSE IF name = <<"P", "1">> THEN <<"NONE", "NONE">>
              ELSE IF Len(name) > 0 /\ name[1] = "A" THEN <<"VOLTAGE", "VOLT">>
              ELSE <<"NONE", "NONE">>

\* A device hands out a signal "A2" of quantity Voltage next to a signal
\* "P1" of no quantity.
C12_Witness ==
    /\ result.op = "all_signals"
    /\ \E i, j \in 1..Len(result.value) :
          /\ result.value[i].internal_name = <<"A", "2">>
          /\ result.value[i].data.quantity = "VOLTAGE"
          /\ result.value[j].internal_name = <<"P", "1">>
          /\ result.value[j].data.quantity = "NONE"

\* The first signal created that satisfies P, or 0 when there is none.
FirstSignal(P(_)) ==
    LET S == {i \in Signals : P(all_signals_[i])}
    IN IF S = {} THEN 0 ELSE CHOOSE i \in S : \A j \in S : i <= j

IsVoltage(signal) == signal.data.quantity = "VOLTAGE"

IsCurrent(signal) == signal.data.quantity = "CURRENT"

IsMeasurement(signal) == signal.internal_name \in {<<"P", "1">>, <<"A", "1">>}

\* C13: voltage_signal() returns the first signal created whose quantity is
\* Voltage, current_signal() the first whose quantity is Current, and
\* measurement_signal() the first named "P1" or "A1"; each returns the null
\* signal when there is no such signal.
C13_FirstOfKindIsReturned ==
    /\ result.op = "voltage_signal" => result.value = FirstSignal(IsVoltage)
    /\ result.op = "current_signal" => result.value = FirstSignal(IsCurrent)
    /\ result.op = "measurement_signal" => result.value = FirstSignal(IsMeasurement)

\* The set of the elements of a sequence.
Range(seq) == {seq[i] : i \in 1..Len(seq)}

\* C14: a device of no channel group has one Configurable, that of the
\* device itself; a device of K > 0 groups has K Configurables, one per
\* group, and K entries in the group-name-to-signals map, the entry of a
\* group listing, once each, the signals of the channels of the group.
C14_GroupsToConfigurables ==
    LET sr_groups == sr_device_.groups
        K == Len(sr_groups)
    IN /\ K = 0 =>
            /\ Len(configurables_) = 1
            /\ configurables_[1].of = "device"
       /\ K > 0 =>
            /\ Len(configurables_) = K
            /\ Cardinality(DOMAIN channel_group_name_signals_map_) = K
            /\ \A g \in 1..K :
                  LET sr_cg == sr_groups[g] IN
                  /\ configurables_[g] = [of |-> "group", name |-> sr_cg.name]
                  /\ sr_cg.name \in DOMAIN channel_group_name_signals_map_
                  /\ LET list == channel_group_name_signals_map_[sr_cg.name] IN
                        /\ Range(list) =
                             {i \in Signals :
                                all_signals_[i].sr_channel \in Range(sr_cg.channels)}
                        /\ Cardinality(Range(list)) = Len(list)

\* A device of two groups hands out its map; one group holds a logic channel
\* and an analog channel, and its entry lists one signal.
C14_Witness ==
    /\ result.op = "channel_group_name_signals_map"
    /\ Len(sr_device_.groups) = 2
    /\ \E g \in 1..2 :
          /\ Len(sr_device_.groups[g].channels) = 2
          /\ 10 \in Range(sr_device_.groups[g].channels)
          /\ Len(result.value[sr_device_.groups[g].name]) = 1

\* The notification that belongs to a key of the recognized table.
KindOfKey ==
    [ENABLED |-> "enabled_changed",
     VOLTAGE_TARGET |-> "voltage_target_changed",
     CURRENT_LIMIT |-> "current_limit_changed",
     OVER_TEMPERATURE_PROTECTION |-> "otp_enabled_changed",
     OVER_TEMPERATURE_PROTECTION_ACTIVE |-> "otp_active_changed",
     OVER_VOLTAGE_PROTECTION_ENABLED |-> "ovp_enabled_changed",
     OVER_VOLTAGE_PROTECTION_ACTIVE |-> "ovp_active_changed",
     OVER_VOLTAGE_PROTECTION_THRESHOLD |-> "ovp_threshold_changed",
     OVER_CURRENT_PROTECTION_ENABLED |-> "ocp_enabled_changed",
     OVER_CURRENT_PROTECTION_ACTIVE |-> "ocp_active_changed",
     OVER_CURRENT_PROTECTION_THRESHOLD |-> "ocp_threshold_changed",
     UNDER_VOLTAGE_CONDITION |-> "uvc_enabled_changed",
     UNDER_VOLTAGE_CONDITION_ACTIVE |-> "uvc_active_changed"]

\* C15: for every entry of a metadata packet with a recognized key,
\* feed_in_meta emits one notification of the kind of the key, with the value
\* of the entry, on the Configurable of index 0; it emits nothing else, on no
\* other Configurable, nothing for an unrecognized key, and raises no error.
C15_MetaNotifiesFirstConfigurable ==
    result.op = "feed_in_meta" =>
        LET recognized == {i \in 1..Len(result.sr_meta) :
                             result.sr_meta[i].key \in DOMAIN KindOfKey}
        IN /\ ~result.raised
           /\ Len(result.emitted) = Cardinality(recognized)
           /\ \A k \in 1..Len(result.emitted) : result.emitted[k].configurable = 0
           /\ \A i \in recognized :
                 LET kind == KindOfKey[result.sr_meta[i].key]
                     of_kind == {k \in 1..Len(result.emitted) :
                                   result.emitted[k].signal = kind}
                 IN /\ Cardinality(of_kind) = 1
                    /\ \A k \in of_kind :
                          result.emitted[k].value = result.sr_meta[i].value.value

\* A device of two Configurables is fed a packet of an "enabled" entry and
\* an entry of an unrecognized key, and emits one enabled-changed
\* notification, on the first Configurable.
C15_Witness ==
    /\ result.op = "feed_in_meta"
    /\ Len(configurables_) = 2
    /\ \E i, j \in 1..Len(result.sr_meta) :
          /\ result.sr_meta[i] = [key |-> "ENABLED", value |-> [type |-> "boolean", value |-> TRUE]]
          /\ result.sr_meta[j].key = "UNDER_VOLTAGE_CONDITION_THRESHOLD"
    /\ result.emitted = << [configurable |-> 0, signal |-> "enabled_changed", value |-> TRUE] >>

\* C16: a channel has at most one signal, two channels have different
\* signals, and a signal is listed in the entry of at most one channel group.
C16_OneSignalOneGroup ==
    /\ \A c1, c2 \in DOMAIN sr_channel_signal_map_ :
          /\ sr_channel_signal_map_[c1] \in Signals
          /\ c1 # c2 => sr_channel_signal_map_[c1] # sr_channel_signal_map_[c2]
    /\ \A i \in Signals :
          Cardinality({name \in DOMAIN channel_group_name_signals_map_ :
                         i \in Range(channel_group_name_signals_map_[name])}) <= 1

\* The non-empty strings of a list, joined by one space.
SpaceJoined(fields) == join(SelectSeq(fields, LAMBDA f : Len(f) > 0), <<" ">>)

\* The fields joined by one space and the connection id in parentheses, when
\* there is one, after one more space when there was a field.
ExpectedName(fields, connection_id) ==
    LET head == SpaceJoined(fields)
    IN IF Len(connection_id) = 0 THEN head
       ELSE (IF Len(head) > 0 THEN head \o <<" ">> ELSE <<>>)
            \o <<"(">> \o connection_id \o <<")">>

\* No space at either end and no two spaces in a row.
WellSpaced(name) ==
    /\ Len(name) > 0 => name[1] # " " /\ name[Len(name)] # " "
    /\ \A i \in 1..(Len(name) - 1) : ~(name[i] = " " /\ name[i + 1] = " ")

\* C17: full_name() is the non-empty fields among vendor, model, version and
\* serial number joined by one space, then the connection id in parentheses
\* when it is not empty, after a space when a field precedes it; short_name()
\* is the same over vendor and model; neither has a leading, trailing or
\* doubled space.
C17_NamesAreSpaceSeparated ==
    /\ result.op = "full_name" =>
          /\ result.value =
                ExpectedName(<<sr_identity.vendor, sr_identity.model,
                               sr_identity.version, sr_identity.serial_number>>,
                             sr_identity.connection_id)
          /\ WellSpaced(result.value)
    /\ result.op = "short_name" =>
          /\ result.value =
                ExpectedName(<<sr_identity.vendor, sr_identity.model>>,
                             sr_identity.connection_id)
          /\ WellSpaced(result.value)

\* The Device Manager knows a device of another handle with the vendor and
\* the model of this device.
KnowsOther ==
    \E i \in 1..Len(device_manager) :
        /\ device_manager[i].sr_device_ # SelfHandle
        /\ device_manager[i].vendor = sr_identity.vendor
        /\ device_manager[i].model = sr_identity.model

\* C18: display_name is vendor and model when the Device Manager knows no
\* other device of the same vendor and model; when it knows one, version and
\* serial number follow, and then the connection id in parentheses if and
\* only if the serial number is empty and the connection id is not. The
\* device itself is not another device.
C18_DisplayNameDisambiguates ==
    result.op = "display_name" =>
        result.value =
            join(<<sr_identity.vendor, sr_identity.model>>
                 \o (IF KnowsOther
                       THEN <<sr_identity.version, sr_identity.serial_number>>
                       ELSE <<>>)
                 \o (IF KnowsOther /\ sr_identity.serial_number = <<>>
                        /\ sr_identity.connection_id # <<>>
                       THEN << <<"(">> \o sr_identity.connection_id \o <<")">> >>
                       ELSE <<>>),
                 <<" ">>)

\* The Device Manager lists the device itself and no other of its vendor and
\* model, and the display name is vendor and model.
C18_Witness ==
    /\ result.op = "display_name"
    /\ \E i \in 1..Len(device_manager) : device_manager[i].sr_device_ = SelfHandle
    /\ ~KnowsOther
    /\ sr_identity.version # <<>>
    /\ result.value = <<"V", " ", "M">>

\* C19: when the destruction of a device completes, the session is not open,
\* its acquisition thread has ended and is joined and the driver handle is
\* closed; and the destruction of a session that is not open changes nothing
\* of the driver or the thread.
C19_DestructorCloses ==
    [][ /\ callerPc' = "destroyed" =>
            /\ ~device_open_'
            /\ ~handleOpen'
            /\ ~joinable'
            /\ aliveTasks' = 0
            /\ taskPc' \in {"none", "done"}
        /\ (closeFrom = "dtor" /\ callerPc = "close_298" /\ ~device_open_
              /\ callerPc' # callerPc) =>
            callerPc' = "close_ret" /\ UNCHANGED <<driverVars, taskVars, joinable>>
        /\ (closeFrom = "dtor" /\ callerPc = "close_ret" /\ ~closeWasOpen
              /\ callerPc' # callerPc) =>
            callerPc' = "destroyed" /\ UNCHANGED <<driverVars, taskVars, joinable>>
      ]_vars

\* C19's case: a device was destroyed while its session was open, and the
\* destructor's close() stopped and joined the thread.
C19_Witness ==
    /\ callerPc = "destroyed"
    /\ closeFrom = "dtor"
    /\ closeWasOpen
    /\ stopAsked
    /\ taskPc = "done"

\* C20: once open() has returned and the acquisition thread has ended, the
\* acquisition state is Stopped.
C20_EndedThreadMeansStopped ==
    (taskPc = "done" /\ callerPc = "idle" /\ lastOp = "open") =>
        aquisition_state_ = "Stopped"

\* The acquisition thread was spawned and has not ended.
TaskAlive == aliveTasks > 0

\* C21: while the acquisition thread is alive the driver handle is open, the
\* device is registered with the session and the session is open; the thread
\* is spawned only when the handle is open, the device registered and the
\* packet callback installed; and the device is unregistered and the handle
\* closed only when the thread was joined.
C21_TaskAliveImpliesOpen ==
    [][ /\ TaskAlive' => handleOpen' /\ registered' /\ device_open_'
        /\ (~TaskAlive /\ TaskAlive') =>
              handleOpen /\ registered /\ callbacks > 0 /\ device_open_
        /\ ((registered /\ ~registered') \/ (handleOpen /\ ~handleOpen')) =>
              ~TaskAlive /\ ~joinable ]_vars

\* close() waits at the join while the thread is alive in the run loop.
C21_Witness ==
    /\ callerPc = "close_309"
    /\ TaskAlive
    /\ taskPc = "t431"
    /\ handleOpen /\ registered /\ device_open_

\* C22: in one run of the acquisition thread error_handler is invoked at
\* most once, and only for a failed start, a failed run, or, at the end of a
\* run that did not fail, the out-of-memory flag.
C22_OneReportPerRun ==
    [][ Len(errLog') > Len(errLog) =>
          /\ Len(errLog) = 0
          /\ Len(errLog') = 1
          /\ \/ taskPc = "t424" /\ errLog'[1].kind = "start"
             \/ taskPc = "t433" /\ errLog'[1].kind = "run"
             \/ taskPc = "t452" /\ out_of_memory_ /\ errLog'[1].kind = "oom" ]_vars

\* A run that failed with the out-of-memory flag set has ended with the one
\* report of the failure.
C22_Witness ==
    /\ taskPc = "done"
    /\ out_of_memory_
    /\ Len(errLog) = 1
    /\ errLog[1].kind = "run"

\* C23: the list of Configurables of a constructed device is not empty, and
\* no operation changes it.
C23_ConfigurablesNeverEmpty ==
    /\ [](Len(configurables_) >= 1)
    /\ [][configurables_' = configurables_]_vars

\* A device of unknown type with a channel group of no channel was opened
\* and closed and has its Configurable.
C23_Witness ==
    /\ type_ = "UNKNOWN"
    /\ Len(sr_device_.groups) = 1
    /\ sr_device_.channels = <<>>
    /\ lastOp = "close"
    /\ Len(configurables_) = 1

====
